---- MODULE Spec2Model ----
(***************************************************************************)
(* PlantDailyLightIntegral (custom_components/plant/plant_meters.py): the  *)
(* sliding 24-hour Daily Light Integral sensor.                            *)
(*                                                                         *)
(* Numbers are fixed point, in thousandths (5.123 is 5123).  State strings *)
(* are sequences of one-character strings, so that float() and str() are   *)
(* conversions between two different representations.  The clock counts    *)
(* periods of the sweep timer (5 minutes each).                            *)
(***************************************************************************)
EXTENDS Integers, Sequences, FiniteSets, TLC

\* ------------------------------------------------------------------------
\* Program constants
\* ------------------------------------------------------------------------

\* timedelta(hours=24): the length of the sliding window, in hours
WINDOW_HOURS == 24

\* timedelta(minutes=5): the period of the sweep timer, in minutes
INTERVAL_MINUTES == 5

\* number of fractional digits kept by round(total, 2)
ROUND_DIGITS == 2

\* one hour and the whole window, in timer periods
HourTicks == 60 \div INTERVAL_MINUTES
WindowTicks == WINDOW_HOURS * HourTicks

\* fixed-point scale: one digit more than round() keeps (thousandths)
Scale == 10 ^ (ROUND_DIGITS + 1)

\* ------------------------------------------------------------------------
\* Bounds of the model
\* ------------------------------------------------------------------------

\* accepted data points held at once
MaxPoints == 2

\* clock advances (single ticks and quiet stretches) in one run
MaxAdvances == 3

\* the latest clock reading of a run: a day, an hour and one period
MaxClock == 301

\* restarts in one run
MaxRestarts == 2

\* lengths of the quiet stretches (timer periods without a source event)
ElapseSteps == {HourTicks, WindowTicks}

\* ------------------------------------------------------------------------
\* State strings
\* ------------------------------------------------------------------------

STATE_UNKNOWN == <<"u", "n", "k", "n", "o", "w", "n">>
STATE_UNAVAILABLE == <<"u", "n", "a", "v", "a", "i", "l", "a", "b", "l", "e">>
NOT_A_NUMBER == <<"n", "o", "t", "_", "a", "_", "n", "u", "m", "b", "e", "r">>

\* an optional object: None, or a state object whose .state is s
None == <<>>
State(s) == <<s>>

DigitChars == <<"0", "1", "2", "3", "4", "5", "6", "7", "8", "9">>
IsDigit(c) == \E i \in 1..10 : DigitChars[i] = c
DigitVal(c) == (CHOOSE i \in 1..10 : DigitChars[i] = c) - 1

RECURSIVE DigitsVal(_)
DigitsVal(ds) ==
    IF ds = <<>> THEN 0
    ELSE 10 * DigitsVal(SubSeq(ds, 1, Len(ds) - 1)) + DigitVal(ds[Len(ds)])

NoExc == "none"
ValueError == "ValueError"
TypeError == "TypeError"

\* float(s) on decimal strings [-]digits[.digits] with at most three
\* fractional digits; every other string raises ValueError.
float(s) ==
    LET neg == Len(s) > 0 /\ s[1] = "-"
        body == IF neg THEN Tail(s) ELSE s
        dots == {i \in 1..Len(body) : body[i] = "."}
        dot == IF dots = {} THEN Len(body) + 1 ELSE CHOOSE i \in dots : TRUE
        ip == SubSeq(body, 1, dot - 1)
        fp == SubSeq(body, dot + 1, Len(body))
        ok == /\ Cardinality(dots) <= 1
              /\ Len(ip) + Len(fp) > 0
              /\ Len(fp) <= 3
              /\ \A i \in 1..Len(ip) : IsDigit(ip[i])
              /\ \A i \in 1..Len(fp) : IsDigit(fp[i])
        pad == 10 ^ (3 - Len(fp))
        mag == DigitsVal(ip) * Scale + DigitsVal(fp) * pad
    IN IF ok THEN [exc |-> NoExc, val |-> IF neg THEN 0 - mag ELSE mag]
       ELSE [exc |-> ValueError, val |-> 0]

\* a state object whose state is a number, and that number
Numeric(st) == st # None /\ float(st[1]).exc = NoExc
Value(st) == float(st[1]).val

RECURSIVE NatStr(_)
NatStr(n) ==
    IF n < 10 THEN <<DigitChars[n + 1]>>
    ELSE Append(NatStr(n \div 10), DigitChars[(n % 10) + 1])

\* str(x) of a float: sign, integer part, point, and the fractional digits
\* without trailing zeros (at least one digit).
FracStr(f) ==
    IF f % 100 = 0 THEN <<DigitChars[(f \div 100) + 1]>>
    ELSE IF f % 10 = 0
         THEN <<DigitChars[(f \div 100) + 1], DigitChars[((f \div 10) % 10) + 1]>>
         ELSE <<DigitChars[(f \div 100) + 1], DigitChars[((f \div 10) % 10) + 1],
                DigitChars[(f % 10) + 1]>>

StateStr(x) ==
    LET mag == IF x < 0 THEN 0 - x ELSE x
    IN (IF x < 0 THEN <<"-">> ELSE <<>>)
       \o NatStr(mag \div Scale) \o <<".">> \o FracStr(mag % Scale)

\* ------------------------------------------------------------------------
\* State
\* ------------------------------------------------------------------------

VARIABLES
    added,              \* async_added_to_hass() has run for this entity object
    now,                \* datetime.now(), in timer periods
    due,                \* the interval timer has expired, its callback is pending
    data_points,        \* self._data_points: sequence of <<timestamp, increment>>
    attr_native_value,  \* self._attr_native_value
    ha_state,           \* the entity's state string in the state machine
    writes,             \* async_write_ha_state() calls made by the latest callback
    raised,             \* exception the latest callback let escape, or NoExc
    recomputed,         \* _update_value() has run since the entity was added
    advances,           \* clock advances so far
    restarts,           \* restarts so far
    source              \* the source entity, as far as a run follows it

vars == <<added, now, due, data_points, attr_native_value, ha_state, writes,
          raised, recomputed, advances, restarts, source>>

\* the entity object as seen by one callback
Self ==
    [data_points |-> data_points, attr_native_value |-> attr_native_value,
     ha_state |-> ha_state, writes |-> 0, raised |-> NoExc]

\* ------------------------------------------------------------------------
\* Methods of PlantDailyLightIntegral
\* ------------------------------------------------------------------------

\* the digits after the second dropped
round_down(total) ==
    LET unit == Scale \div (10 ^ ROUND_DIGITS)
    IN (total \div unit) * unit

\* round(total, 2): to the nearest hundredth, ties to the even hundredth
round(total) ==
    LET unit == Scale \div (10 ^ ROUND_DIGITS)
        q == total \div unit
        r == total % unit
    IN IF 2 * r < unit THEN q * unit
       ELSE IF 2 * r > unit THEN (q + 1) * unit
       ELSE IF q % 2 = 0 THEN q * unit ELSE (q + 1) * unit

\* sum(value for _, value in self._data_points)
RECURSIVE sum(_)
sum(dps) == IF dps = <<>> THEN 0 ELSE dps[1][2] + sum(Tail(dps))

\* self.async_write_ha_state(): the state machine gets str(native value)
async_write_ha_state(self) ==
    [self EXCEPT !.ha_state = StateStr(self.attr_native_value),
                 !.writes = @ + 1]

\* the newest increment alone, rounded
NativeValue_last(dps) == IF dps = <<>> THEN 0 ELSE round(dps[Len(dps)][2])

\* the value _update_value() computes
NativeValue(dps) == IF dps = <<>> THEN 0 ELSE round(sum(dps))

\* _update_value() without its async_write_ha_state() call
update_value_unwritten(self) ==
    [self EXCEPT !.attr_native_value = NativeValue(self.data_points)]

\* the state written first, the value computed after
update_value_write_first(self) ==
    [async_write_ha_state(self) EXCEPT
        !.attr_native_value = NativeValue(self.data_points)]

update_value(self) ==
    async_write_ha_state(
        [self EXCEPT !.attr_native_value = NativeValue(self.data_points)])

\* an except clause that names TypeError alone
Caught_type_only(exc) == exc = TypeError

\* the exceptions a handler's except clause catches
Caught(exc) == exc \in {ValueError, TypeError}

\* old_value initialised to 1 instead of 0
OldValue_default_one(old_state) ==
    IF old_state # None /\ old_state[1] \notin {STATE_UNKNOWN, STATE_UNAVAILABLE}
    THEN LET o == float(old_state[1])
         IN IF o.exc = NoExc THEN o.val ELSE Scale
    ELSE Scale

\* old_value left at its initial 0
OldValue_zero(old_state) == 0

\* old_value of _source_changed: 0 unless the old state parses
OldValue(old_state) ==
    IF old_state # None /\ old_state[1] \notin {STATE_UNKNOWN, STATE_UNAVAILABLE}
    THEN LET o == float(old_state[1])
         IN IF o.exc = NoExc THEN o.val ELSE 0
    ELSE 0

\* the test written as increment >= 0
Accepted_nonneg(increment) == increment >= 0

\* if increment > 0
Accepted(increment) == increment > 0

\* the new data point put at the front of the list
source_changed_insert_front(self, event, t) ==
    IF event.new_state = None THEN self
    ELSE LET n == float(event.new_state[1])
         IN IF n.exc # NoExc
            THEN IF Caught(n.exc) THEN self ELSE [self EXCEPT !.raised = n.exc]
            ELSE LET increment == n.val - OldValue(event.old_state)
                 IN IF Accepted(increment)
                    THEN update_value(
                           [self EXCEPT !.data_points = <<<<t, increment>>>> \o @])
                    ELSE self

source_changed(self, event, t) ==
    IF event.new_state = None THEN self
    ELSE LET n == float(event.new_state[1])
         IN IF n.exc # NoExc
            THEN IF Caught(n.exc) THEN self ELSE [self EXCEPT !.raised = n.exc]
            ELSE LET increment == n.val - OldValue(event.old_state)
                 IN IF Accepted(increment)
                    THEN update_value(
                           [self EXCEPT !.data_points = Append(@, <<t, increment>>)])
                    ELSE self

\* the comparison written as dp[0] > cutoff
KeepPoint_strict(dp, cutoff) == dp[1] > cutoff

\* the comparison made on dp[1], the increment
KeepPoint_increment(dp, cutoff) == dp[2] >= cutoff

\* dp[0] >= cutoff
KeepPoint(dp, cutoff) == dp[1] >= cutoff

\* the sweep without its return on an empty list
update_sliding_window_no_return(self, t) ==
    LET cutoff == t - WindowTicks
    IN update_value(
         [self EXCEPT !.data_points =
                         SelectSeq(@, LAMBDA dp : KeepPoint(dp, cutoff))])

update_sliding_window(self, t) ==
    IF self.data_points = <<>> THEN self
    ELSE LET cutoff == t - WindowTicks
         IN update_value(
              [self EXCEPT !.data_points =
                              SelectSeq(@, LAMBDA dp : KeepPoint(dp, cutoff))])

\* __init__: no data points, value 0, no state written yet
init ==
    [data_points |-> <<>>, attr_native_value |-> 0, ha_state |-> <<>>,
     writes |-> 0, raised |-> NoExc]

\* the restore of async_added_to_hass: state is async_get_last_state()
async_added_to_hass(self, state) ==
    IF state # None /\ state[1] \notin {STATE_UNKNOWN, STATE_UNAVAILABLE}
    THEN LET f == float(state[1])
         IN IF f.exc = NoExc THEN [self EXCEPT !.attr_native_value = f.val]
            ELSE IF Caught(f.exc) THEN [self EXCEPT !.attr_native_value = 0]
            ELSE [self EXCEPT !.raised = f.exc]
    ELSE self

\* ------------------------------------------------------------------------
\* Environment: the state strings the source entity and the store can hold
\* ------------------------------------------------------------------------

S_0 == <<"0">>
S_5 == <<"5">>
S_10 == <<"1", "0">>
S_5_125 == <<"5", ".", "1", "2", "5">>
S_7_5 == <<"7", ".", "5">>
S_neg_3 == <<"-", "3", ".", "0">>

NewStates ==
    {None} \cup {State(s) : s \in {STATE_UNKNOWN, STATE_UNAVAILABLE, NOT_A_NUMBER,
                                   S_0, S_5, S_5_125}}

OldStates ==
    {None} \cup {State(s) : s \in {STATE_UNKNOWN, STATE_UNAVAILABLE, NOT_A_NUMBER,
                                   S_0, S_5, S_10}}

Events == [new_state : NewStates, old_state : OldStates]

\* what the store may hold before the first start
InitialStored ==
    {None} \cup {State(s) : s \in {STATE_UNKNOWN, STATE_UNAVAILABLE, NOT_A_NUMBER,
                                   S_neg_3, S_7_5}}

\* the source entity: its state object, the value of the old reading of
\* its first event (0 if that is no number) and its latest numeric reading
Source(state) ==
    LET first == IF Numeric(state) THEN Value(state) ELSE 0
    IN [state |-> state, first |-> first, latest |-> first]

\* a source entity that is not followed: its events carry any readings
NoSource == Source(None)

\* ------------------------------------------------------------------------
\* Actions
\* ------------------------------------------------------------------------

\* the state after __init__
Init ==
    /\ added = FALSE
    /\ now = 0
    /\ due = FALSE
    /\ data_points = init.data_points
    /\ attr_native_value = init.attr_native_value
    /\ ha_state = init.ha_state
    /\ writes = init.writes
    /\ raised = init.raised
    /\ recomputed = FALSE
    /\ advances = 0
    /\ restarts = 0
    /\ source = NoSource

\* a method has run and left the entity as self
Return(self) ==
    /\ data_points' = self.data_points
    /\ attr_native_value' = self.attr_native_value
    /\ ha_state' = self.ha_state
    /\ raised' = self.raised

\* a callback has run and left the entity as self
Callback(self) ==
    /\ Return(self)
    /\ writes' = self.writes
    /\ recomputed' = (recomputed \/ self.writes > 0)

\* the source entity changes state: _source_changed(event)
SourceChanged(event) ==
    /\ added
    /\ Len(data_points) < MaxPoints
    /\ Callback(source_changed(Self, event, now))
    /\ UNCHANGED <<added, now, due, advances, restarts, source>>

\* one timer period passes: the interval timer expires
Tick ==
    /\ added
    /\ ~due
    /\ advances < MaxAdvances
    /\ now + 1 <= MaxClock
    /\ now' = now + 1
    /\ due' = TRUE
    /\ advances' = advances + 1
    /\ UNCHANGED <<added, data_points, attr_native_value, ha_state, writes,
                   raised, recomputed, restarts, source>>

\* the timer's callback runs: _update_sliding_window()
UpdateSlidingWindow ==
    /\ added
    /\ due
    /\ due' = FALSE
    /\ Callback(update_sliding_window(Self, now))
    /\ UNCHANGED <<added, now, advances, restarts, source>>

\* the timer callbacks of the periods t..last, with no source event between
\* (the stretch is run in two halves; the set binds h to the entity as the
\* first half left it before the second half starts; with no data points
\* every callback of the stretch returns at once)
RECURSIVE RunSweeps(_, _, _)
RunSweeps(self, t, last) ==
    IF t > last THEN self
    ELSE IF self.data_points = <<>> THEN [self EXCEPT !.writes = 0]
    ELSE IF t = last THEN update_sliding_window([self EXCEPT !.writes = 0], t)
    ELSE LET mid == (t + last) \div 2
         IN CHOOSE r \in {RunSweeps(h, mid + 1, last) :
                            h \in {RunSweeps(self, t, mid)}} : TRUE

\* k timer periods pass without a source event; the timer fires in each
Elapse(k) ==
    /\ added
    /\ ~due
    /\ advances < MaxAdvances
    /\ now + k <= MaxClock
    /\ now' = now + k
    /\ advances' = advances + 1
    /\ \E self \in {RunSweeps(Self, now + 1, now + k)} :
          /\ data_points' = self.data_points
          /\ attr_native_value' = self.attr_native_value
          /\ ha_state' = self.ha_state
          /\ writes' = self.writes
          /\ raised' = self.raised
          /\ recomputed' = (recomputed \/ data_points # <<>>)
    /\ UNCHANGED <<added, due, restarts, source>>

\* the entity is added to Home Assistant: async_added_to_hass() restores
\* the stored state, and the platform then writes the entity's first state
Added(self, state) ==
    /\ Return(async_write_ha_state(async_added_to_hass(self, state)))
    /\ writes' = 0
    /\ recomputed' = FALSE

\* first start, whatever the store holds
AddedToHass(state) ==
    /\ ~added
    /\ added' = TRUE
    /\ Added(Self, state)
    /\ UNCHANGED <<now, due, advances, restarts, source>>

\* Home Assistant stops, storing the entity's state, and starts again with
\* a new entity object
Restart ==
    /\ added
    /\ restarts < MaxRestarts
    /\ restarts' = restarts + 1
    /\ Added(init, State(ha_state))
    /\ due' = FALSE
    /\ UNCHANGED <<added, now, advances, source>>

Next ==
    \/ \E state \in InitialStored : AddedToHass(state)
    \/ \E event \in Events : SourceChanged(event)
    \/ Tick
    \/ UpdateSlidingWindow
    \/ \E k \in ElapseSteps : Elapse(k)
    \/ Restart

Spec == Init /\ [][Next]_vars

\* the event loop runs a pending timer callback
LiveSpec == Spec /\ WF_vars(UpdateSlidingWindow)

\* ------------------------------------------------------------------------
\* _update_value() on its own, as test_rounding calls it
\* ------------------------------------------------------------------------

\* increments, in thousandths: those of test_rounding (5.123, 10.456),
\* halves of a hundredth that a float holds exactly (5.125, 0.125), and
\* small and whole ones
RoundIncrements == {5123, 10456, 5125, 125, 5000, 4, 6, 996}

RECURSIVE Windows(_)
Windows(n) ==
    IF n = 0 THEN {<<>>}
    ELSE LET shorter == Windows(n - 1)
         IN shorter \cup {Append(dps, <<0, inc>>) :
                            dps \in shorter, inc \in RoundIncrements}

\* the entity when _update_value() is called: the window as an append or a
\* sweep left it, the value still the one computed before
RoundInit ==
    /\ added = TRUE
    /\ now = 0
    /\ due = FALSE
    /\ data_points \in Windows(MaxPoints)
    /\ attr_native_value \in
         IF data_points = <<>> THEN {0, NativeValue(<<<<0, 5000>>>>)}
         ELSE {NativeValue(SubSeq(data_points, 1, Len(data_points) - 1))}
    /\ ha_state = StateStr(attr_native_value)
    /\ writes = 0
    /\ raised = NoExc
    /\ recomputed = FALSE
    /\ advances = 0
    /\ restarts = 0
    /\ source = NoSource

\* self._update_value()
UpdateValue ==
    /\ ~recomputed
    /\ Callback(update_value(Self))
    /\ UNCHANGED <<added, now, due, advances, restarts, source>>

RoundNext == UpdateValue

RoundSpec == RoundInit /\ [][RoundNext]_vars

\* ------------------------------------------------------------------------
\* A cumulative source followed from event to event
\* ------------------------------------------------------------------------

\* the entity has been added with nothing stored; the source entity is in
\* any state
ChainInit ==
    /\ added = TRUE
    /\ now = 0
    /\ due = FALSE
    /\ data_points = init.data_points
    /\ attr_native_value = init.attr_native_value
    /\ ha_state = StateStr(attr_native_value)
    /\ writes = 0
    /\ raised = NoExc
    /\ recomputed = FALSE
    /\ advances = 0
    /\ restarts = 0
    /\ \E state \in OldStates : source = Source(state)

\* the states the source entity reports: the sentinels and readings
SourceStates ==
    {State(s) : s \in {STATE_UNKNOWN, STATE_UNAVAILABLE, S_0, S_5, S_5_125}}

\* the source entity changes to new_state, a numeric reading never below
\* an earlier one; the event carries the state it had as old_state
SourceReports(new_state) ==
    /\ Len(data_points) < MaxPoints
    /\ Numeric(new_state) => Value(new_state) >= source.latest
    /\ source' = [source EXCEPT !.state = new_state,
                                !.latest = IF Numeric(new_state)
                                           THEN Value(new_state) ELSE @]
    /\ Callback(source_changed(
                  Self, [new_state |-> new_state, old_state |-> source.state], now))
    /\ UNCHANGED <<added, now, due, advances, restarts>>

\* the clock stays within the first periods: no sweep evicts anything
ChainNext ==
    \/ \E new_state \in SourceStates : SourceReports(new_state)
    \/ Tick
    \/ UpdateSlidingWindow

ChainSpec == ChainInit /\ [][ChainNext]_vars

\* ------------------------------------------------------------------------
\* Vocabulary of the properties
\* ------------------------------------------------------------------------

\* one hundredth, the unit round() rounds to
Hundredth == Scale \div (10 ^ ROUND_DIGITS)

Abs(x) == IF x < 0 THEN 0 - x ELSE x

\* v is the sum of the increments of dps rounded to 2 decimals (a nearest
\* hundredth, whichever way a tie goes)
IsRoundedSum(v, dps) == v % Hundredth = 0 /\ 2 * Abs(v - sum(dps)) <= Hundredth

\* the timestamp of the newest data point
LastStamp(dps) == dps[Len(dps)][1]

\* ------------------------------------------------------------------------
\* C1
\* ------------------------------------------------------------------------

\* both readings numeric, new > old
C1_Case(e) ==
    /\ Numeric(e.new_state) /\ Numeric(e.old_state)
    /\ Value(e.new_state) > Value(e.old_state)

\* C1 as stated: in every reachable state, restored ones included, a source
\* change with numeric new > old appends exactly one data point whose
\* increment is new - old, and the value grows by that increment (up to the
\* rounding to 2 decimals).
C1_Original ==
    [][\A e \in Events :
         (SourceChanged(e) /\ C1_Case(e)) =>
            LET inc == Value(e.new_state) - Value(e.old_state)
            IN /\ data_points' = Append(data_points, <<now, inc>>)
               /\ Abs(attr_native_value' - (attr_native_value + inc)) <= Hundredth
      ]_vars

\* C1 as amended: such a source change appends exactly one data point whose
\* increment is new - old, and the value becomes the rounded sum of the
\* window; it is the old value plus the increment (up to rounding) whenever
\* the old value was the rounded sum of the window, which a restored value
\* is not.
C1_Increment ==
    [][\A e \in Events :
         (SourceChanged(e) /\ C1_Case(e)) =>
            LET inc == Value(e.new_state) - Value(e.old_state)
            IN /\ data_points' = Append(data_points, <<now, inc>>)
               /\ IsRoundedSum(attr_native_value', data_points')
               /\ IsRoundedSum(attr_native_value, data_points) =>
                    Abs(attr_native_value' - (attr_native_value + inc)) <= Hundredth
      ]_vars

\* C1 witness: after a restart, 5 -> 5.125 has been accepted (0.125 is the
\* difference of two numeric readings only)
C1_Witness ==
    /\ restarts >= 1
    /\ writes = 1
    /\ data_points # <<>>
    /\ data_points[Len(data_points)] = <<now, 125>>

\* ------------------------------------------------------------------------
\* C2
\* ------------------------------------------------------------------------

\* both readings numeric, new <= old
C2_Case(e) ==
    /\ Numeric(e.new_state) /\ Numeric(e.old_state)
    /\ Value(e.new_state) <= Value(e.old_state)

\* C2: a source change whose numeric new reading is less than or equal to
\* its old reading leaves the window and the value unchanged: nothing is
\* appended, nothing recomputed, nothing written.
C2_NoChange ==
    [][\A e \in Events :
         (SourceChanged(e) /\ C2_Case(e)) =>
            /\ UNCHANGED <<data_points, attr_native_value, ha_state, recomputed>>
            /\ writes' = 0
      ]_vars

\* C2 witness: with 5.0 in the window and no clock advance or restart
\* since, the latest source change was discarded
C2_Witness ==
    /\ added /\ advances = 0 /\ restarts = 0
    /\ data_points = <<<<0, 5000>>>>
    /\ attr_native_value = 5000
    /\ writes = 0

\* ------------------------------------------------------------------------
\* C3
\* ------------------------------------------------------------------------

\* the new reading is a sentinel or another non-numeric string
C3_Case(e) ==
    /\ e.new_state # None
    /\ e.new_state[1] \in {STATE_UNKNOWN, STATE_UNAVAILABLE, NOT_A_NUMBER}

\* C3: a source change whose new reading is 'unknown', 'unavailable' or a
\* non-numeric string leaves the window and the value unchanged and raises
\* nothing, whatever the old reading is.
C3_Ignored ==
    [][\A e \in Events :
         (SourceChanged(e) /\ C3_Case(e)) =>
            /\ UNCHANGED <<data_points, attr_native_value, ha_state>>
            /\ writes' = 0
            /\ raised' = NoExc
      ]_vars

\* C3 witness: with 5.125 in the window (value 5.12) and no clock advance
\* or restart since, the latest source change was discarded without an
\* exception
C3_Witness ==
    /\ added /\ advances = 0 /\ restarts = 0
    /\ data_points = <<<<0, 5125>>>>
    /\ attr_native_value = 5120
    /\ writes = 0
    /\ raised = NoExc

\* ------------------------------------------------------------------------
\* C4
\* ------------------------------------------------------------------------

\* C4 as stated: a sweep at time now removes exactly the data points whose
\* timestamp is strictly earlier than now - 24h and keeps the others in
\* their order; afterwards the value is the rounded sum of the kept
\* increments.
C4_Original ==
    [][UpdateSlidingWindow =>
         /\ data_points' =
              SelectSeq(data_points, LAMBDA p : ~(p[1] < now - WindowTicks))
         /\ IsRoundedSum(attr_native_value', data_points')
      ]_vars

\* ------------------------------------------------------------------------
\* C5
\* ------------------------------------------------------------------------

\* C5 as stated: every scheduled sweep recomputes and publishes the value,
\* also when the value is unchanged and when the window is empty; after a
\* sweep of an empty window the published value is 0.
C5_Original ==
    [][UpdateSlidingWindow =>
         /\ writes' >= 1
         /\ ha_state' = StateStr(attr_native_value')
         /\ data_points = <<>> => attr_native_value' = 0
      ]_vars

\* ------------------------------------------------------------------------
\* C6
\* ------------------------------------------------------------------------

\* C6 as stated: in every reachable state the value equals the sum of the
\* increments in the window, rounded to 2 decimals.
C6_Original == IsRoundedSum(attr_native_value, data_points)

\* C6 as amended: in every reachable state in which the value has been
\* recomputed since the entity was added, the value equals the sum of the
\* increments in the window, rounded to 2 decimals; until the first
\* recomputation the window is empty (and the value is the one the start
\* set).
C6_RecomputedSum ==
    /\ recomputed => IsRoundedSum(attr_native_value, data_points)
    /\ ~recomputed => data_points = <<>>

\* C6 witness: after a restart, two data points are held and the value has
\* been recomputed
C6_Witness ==
    /\ restarts >= 1
    /\ recomputed
    /\ Len(data_points) = 2

\* ------------------------------------------------------------------------
\* C7
\* ------------------------------------------------------------------------

\* C7 as stated: on cold start the value is the persisted scalar only if
\* that scalar exists and is a valid non-negative real; for a missing,
\* 'unknown', 'unavailable', unparseable or negative scalar it is 0.  The
\* window is empty in every case.
C7_Original ==
    [][\A st \in InitialStored :
         AddedToHass(st) =>
            /\ attr_native_value' =
                 IF Numeric(st) /\ Value(st) >= 0 THEN Value(st) ELSE 0
            /\ data_points' = <<>>
      ]_vars

\* ------------------------------------------------------------------------
\* C8
\* ------------------------------------------------------------------------

\* C8: at a restart the persisted state denotes the value of the instant of
\* shutdown, the value right after initialisation is that persisted value,
\* and the window is empty; at every restart of a run.
C8_RoundTrip ==
    [][Restart =>
         LET persisted == float(ha_state)
         IN /\ persisted.exc = NoExc
            /\ persisted.val = attr_native_value
            /\ attr_native_value' = persisted.val
            /\ attr_native_value' = attr_native_value
            /\ data_points' = <<>>
      ]_vars

\* C8 witness: two restarts later the value computed from a data point
\* (5.12) is still the value, with an empty window
C8_Witness ==
    /\ restarts = 2
    /\ ~recomputed
    /\ data_points = <<>>
    /\ attr_native_value = 5120

\* ------------------------------------------------------------------------
\* C9
\* ------------------------------------------------------------------------

\* C9 as stated: one window length (24h of sweeps at their cadence) after a
\* start that restored a value, the carry-over is replaced: the value is
\* the rounded sum of the data points in the window, also when no
\* increment arrived.
C9_Original ==
    [][Elapse(WindowTicks) =>
         IsRoundedSum(attr_native_value', data_points')
      ]_vars

\* ------------------------------------------------------------------------
\* C10
\* ------------------------------------------------------------------------

\* some data point is more than 24h old
Stale == \E i \in 1..Len(data_points) : data_points[i][1] + WindowTicks < now

\* a step in which the timer's callback runs
SweepStep == UpdateSlidingWindow \/ \E k \in ElapseSteps : Elapse(k)

\* increments 5 at t0 and 5 at t0+1h give 10, and the sweep of this step
\* runs at t0+25h
C10_Example ==
    /\ SweepStep
    /\ Len(data_points) = 2
    /\ data_points[1][2] = 5000
    /\ data_points[2] = <<data_points[1][1] + HourTicks, 5000>>
    /\ attr_native_value = 10000
    /\ now' = data_points[1][1] + 25 * HourTicks

\* C10 as stated, its example: increments 5 at t0 and 5 at t0+1h give 10,
\* then a sweep at t0+25h gives an empty window and the value 0.
C10_Original ==
    [][C10_Example => (data_points' = <<>> /\ attr_native_value' = 0)]_vars

\* C10 as amended: every data point more than 24h old is eventually removed
\* by a sweep; the first sweep later than 24h after the newest data point
\* leaves the window empty and the value 0; in the example the sweep at
\* t0+25h keeps the point of t0+1h, which is exactly 24h old, and gives 5
\* (the next sweep gives 0).
C10_Eviction ==
    /\ Stale ~> ~Stale
    /\ [][(SweepStep /\ data_points # <<>>
             /\ now' > LastStamp(data_points) + WindowTicks)
            => (data_points' = <<>> /\ attr_native_value' = 0)]_vars
    /\ [][C10_Example =>
            (data_points' = <<data_points[2]>> /\ attr_native_value' = 5000)]_vars

\* C10 witness: the sweep at t0+25h+5min has emptied the window of the
\* example and set the value to 0
C10_Witness ==
    /\ now = 25 * HourTicks + 1
    /\ ~due
    /\ recomputed
    /\ writes = 1
    /\ data_points = <<>>
    /\ attr_native_value = 0

\* ------------------------------------------------------------------------
\* C11
\* ------------------------------------------------------------------------

\* C11 as stated: the value is non-negative in every reachable state,
\* whatever the store held at the first start and whatever source changes
\* and sweeps follow.
C11_Original == attr_native_value >= 0

\* ------------------------------------------------------------------------
\* C12
\* ------------------------------------------------------------------------

\* the increments of a window, in order
Increments(dps) == [i \in 1..Len(dps) |-> dps[i][2]]

\* C12: a recomputation sets the value to the sum of the increments in the
\* window rounded to 2 fractional digits (a multiple of a hundredth nearest
\* to the sum), and to 0 when the window is empty; the window of 5.123 and
\* 10.456 gives 15.58, published as "15.58".
C12_Rounded ==
    [][UpdateValue =>
         /\ data_points = <<>> => attr_native_value' = 0
         /\ data_points # <<>> =>
              IsRoundedSum(attr_native_value', data_points)
         /\ Increments(data_points) = <<5123, 10456>> =>
              /\ attr_native_value' = 15580
              /\ ha_state' = <<"1", "5", ".", "5", "8">>
      ]_vars

\* C12 witness: the window of 5.123 and 10.456 has been recomputed to 15.58
C12_Witness ==
    /\ recomputed
    /\ writes = 1
    /\ Increments(data_points) = <<5123, 10456>>
    /\ attr_native_value = 15580

\* ------------------------------------------------------------------------
\* C13
\* ------------------------------------------------------------------------

\* C13 as stated: a source-change notification that carries no new state
\* makes the entity publish 'unknown' as its state, and raises nothing.
C13_Original ==
    [][\A e \in Events :
         (SourceChanged(e) /\ e.new_state = None) =>
            /\ ha_state' = STATE_UNKNOWN
            /\ raised' = NoExc
      ]_vars

\* ------------------------------------------------------------------------
\* C14
\* ------------------------------------------------------------------------

\* C14: in every reachable state every data point in the window has a
\* strictly positive increment; no append, sweep or restore puts a zero or
\* negative increment in the window.
C14_Positive == \A i \in 1..Len(data_points) : data_points[i][2] > 0

\* C14 witness: after a restart and a clock advance the window holds two
\* data points, the smallest accepted increment (0.125) among them
C14_Witness ==
    /\ restarts >= 1
    /\ advances >= 1
    /\ Len(data_points) = 2
    /\ \E i \in 1..2 : data_points[i][2] = 125

\* ------------------------------------------------------------------------
\* C15
\* ------------------------------------------------------------------------

\* the window is in ascending order of timestamp
Ordered(dps) == \A i \in 1..(Len(dps) - 1) : dps[i][1] <= dps[i + 1][1]

\* after is what is left of before once its first k points are removed,
\* for some k
PrefixRemoved(before, after) ==
    \E k \in 0..Len(before) : after = SubSeq(before, k + 1, Len(before))

\* C15: the clock never going back, the window is in ascending order of
\* timestamp in every reachable state, and every sweep removes a prefix of
\* the window (possibly empty, possibly all of it): no removed point is
\* followed by an older point that stays.
C15_Ordered ==
    /\ []Ordered(data_points)
    /\ [][SweepStep => PrefixRemoved(data_points, data_points')]_vars

\* C15 witness: of the points of t0 and t0+1h, the sweep at t0+25h has
\* left the one of t0+1h
C15_Witness ==
    /\ now = 25 * HourTicks
    /\ ~due
    /\ writes = 1
    /\ Len(data_points) = 1
    /\ data_points[1][1] = HourTicks

\* ------------------------------------------------------------------------
\* C16
\* ------------------------------------------------------------------------

\* the points of a window, as a set
Points(dps) == {dps[i] : i \in 1..Len(dps)}

\* C16: the timer firing every period, no data point in the window is ever
\* older than 24h plus one period; right after a sweep at now every point
\* left has a timestamp >= now - 24h; and a point a sweep removed never
\* comes back: whatever is in the window after a step was in it before the
\* step or carries the current time, which a removed point (older than
\* 24h) does not.
C16_Bounded ==
    /\ [](\A dp \in Points(data_points) : now <= dp[1] + WindowTicks + 1)
    /\ [][SweepStep =>
            \A dp \in Points(data_points') : dp[1] >= now' - WindowTicks]_vars
    /\ [][\A dp \in Points(data_points') :
            dp \in Points(data_points) \/ dp[1] = now']_vars

\* C16 witness: the timer has just expired and its sweep is pending; the
\* oldest point of the window is 24h and one period old
C16_Witness ==
    /\ due
    /\ data_points # <<>>
    /\ now = data_points[1][1] + WindowTicks + 1

\* ------------------------------------------------------------------------
\* C17
\* ------------------------------------------------------------------------

\* the new reading is numeric; the old one is absent, a sentinel or does
\* not parse
C17_Case(e) ==
    /\ Numeric(e.new_state)
    /\ ~Numeric(e.old_state)

\* C17: when the new reading is numeric and the old reading is absent,
\* 'unknown', 'unavailable' or unparseable, the old value is 0 and the
\* increment is the new reading itself: a data point with that increment
\* is appended if the new reading is > 0, and nothing is appended
\* otherwise.
C17_OldZero ==
    [][\A e \in Events :
         (C17_Case(e) /\ SourceChanged(e)) =>
            IF Value(e.new_state) > 0
            THEN data_points' = Append(data_points, <<now, Value(e.new_state)>>)
            ELSE data_points' = data_points
      ]_vars

\* C17 witness: after a clock advance a second data point has just been
\* appended whose increment is the whole reading 5.125
C17_Witness ==
    /\ advances >= 1
    /\ writes = 1
    /\ Len(data_points) = 2
    /\ data_points[2] = <<now, 5125>>

\* ------------------------------------------------------------------------
\* C18
\* ------------------------------------------------------------------------

\* the callback of this step wrote the state once, and it is the new value
PublishedOnce ==
    /\ writes' = 1
    /\ attr_native_value' = NativeValue(data_points')
    /\ ha_state' = StateStr(attr_native_value')

\* the callback of this step wrote nothing and left the value alone
PublishedNothing ==
    /\ writes' = 0
    /\ UNCHANGED <<attr_native_value, ha_state>>

\* C18: every recomputation is published: a source change that is accepted
\* (a data point is appended) and a sweep that recomputes (the window was
\* not empty) each write the state exactly once, and what they write is
\* the new value; a rejected source change writes nothing; and whenever a
\* handler has completed, the published state is the current value.
C18_Published ==
    /\ [](added => ha_state = StateStr(attr_native_value))
    /\ [][\A e \in Events :
            (now' = now /\ SourceChanged(e)) =>
               IF data_points' # data_points THEN PublishedOnce
               ELSE PublishedNothing]_vars
    /\ [][UpdateSlidingWindow =>
            IF data_points # <<>> THEN PublishedOnce ELSE PublishedNothing]_vars

\* C18 witness: a sweep of a window that was not empty has written the
\* state once, and the state is the value
C18_Witness ==
    /\ ~due
    /\ now > 0
    /\ writes = 1
    /\ data_points # <<>>
    /\ LastStamp(data_points) < now
    /\ ha_state = StateStr(attr_native_value)

\* ------------------------------------------------------------------------
\* C19
\* ------------------------------------------------------------------------

\* the increment of an event, and whether the event is accepted
Increment(e) ==
    Value(e.new_state) - (IF Numeric(e.old_state) THEN Value(e.old_state) ELSE 0)
IsAccepted(e) == Numeric(e.new_state) /\ Increment(e) > 0

\* the points of a window that are not older than 24h at time t
Unexpired(dps, t) == SelectSeq(dps, LAMBDA dp : dp[1] >= t - WindowTicks)

\* C19: the callbacks running to completion, in whatever order source
\* changes and sweeps follow each other on one entity the window holds
\* exactly the accepted data points no sweep has evicted: an accepted
\* source change adds its point once at the end and keeps every point
\* held, a rejected one changes nothing, a sweep keeps every point not
\* older than 24h, once and in place, and drops the others, and the clock
\* alone changes nothing.
C19_NoLossNoDuplicate ==
    /\ [][\A e \in Events :
            (now' = now /\ SourceChanged(e)) =>
               data_points' =
                  IF IsAccepted(e) THEN Append(data_points, <<now, Increment(e)>>)
                  ELSE data_points]_vars
    /\ [][SweepStep => data_points' = Unexpired(data_points, now')]_vars
    /\ [][Tick => data_points' = data_points]_vars

\* C19 witness: a point was accepted, the clock advanced, a second point
\* was accepted, and a sweep later both are in the window, once each
C19_Witness ==
    /\ ~due
    /\ writes = 1
    /\ Len(data_points) = 2
    /\ data_points[1][1] < data_points[2][1]
    /\ data_points[2][1] < now

\* ------------------------------------------------------------------------
\* C20
\* ------------------------------------------------------------------------

\* the net rise of the source: its latest numeric reading minus the old
\* reading of its first event (0 if that is absent or no number)
NetRise == source.latest - source.first

\* C20 as stated: from an empty window and with no eviction, for a source
\* whose numeric readings never decrease and whose events chain, the value
\* never exceeds the net rise of the source (beyond the rounding to 2
\* decimals), also when the source is 'unknown' or 'unavailable' between
\* two numeric readings.
C20_Original == 2 * (attr_native_value - NetRise) <= Hundredth

\* ------------------------------------------------------------------------
\* C21
\* ------------------------------------------------------------------------

\* a step that starts the entity, and the scalar it restores: the number
\* the store holds, 0 when it holds none
StartStep == Restart \/ \E st \in InitialStored : AddedToHass(st)
Restored(st) == IF Numeric(st) THEN Value(st) ELSE 0

\* C21: in every reachable state a window that is not empty has the value
\* equal to the rounded sum of its increments, and an empty window has the
\* value 0 or the scalar restored at the last start: a start sets the
\* value to the restored scalar, and a later step that leaves the window
\* empty either leaves the value alone (the window was empty) or sets it
\* to 0 (the window was emptied).  Sweeps of an empty window leave a
\* restored value untouched, and the first increment d accepted after a
\* restore sets the value to round(d, 2), whatever was restored.
C21_EmptyOrSum ==
    /\ [](data_points # <<>> => IsRoundedSum(attr_native_value, data_points))
    /\ [][\A st \in InitialStored :
            AddedToHass(st) =>
               (data_points' = <<>> /\ attr_native_value' = Restored(st))]_vars
    /\ [][Restart =>
            (data_points' = <<>>
               /\ attr_native_value' = Restored(State(ha_state)))]_vars
    /\ [][(data_points' = <<>> /\ ~StartStep) =>
            IF data_points = <<>> THEN attr_native_value' = attr_native_value
            ELSE attr_native_value' = 0]_vars
    /\ [][(SweepStep /\ data_points = <<>>) =>
            UNCHANGED <<data_points, attr_native_value, ha_state>>]_vars
    /\ [][\A e \in Events :
            (now' = now /\ data_points = <<>> /\ IsAccepted(e) /\ SourceChanged(e))
               => attr_native_value' = round(Increment(e))]_vars

\* C21 witness: 7.5 was restored, and a day of sweeps later the window is
\* still empty and the value still 7.5
C21_Witness ==
    /\ added
    /\ ~due
    /\ ~recomputed
    /\ now >= WindowTicks
    /\ data_points = <<>>
    /\ attr_native_value = 7500

====
